---- MODULE Spec2Model ----
(***************************************************************************)
(* Model of renderdoc/os/win32/win32_process.cpp: the deferred environment *)
(* applier that lives inside the capture library, and the injection        *)
(* orchestrator (InjectIntoProcess, LaunchAndInjectIntoProcess).           *)
(*                                                                         *)
(* Strings are sequences of one-character strings, so that lowercase, trim *)
(* and the '=' split of the environment block work on characters.          *)
(***************************************************************************)
EXTENDS Integers, Sequences, FiniteSets, TLC

VARIABLES
  \* ---- inside the capture library, in the target ----
  liveEnv,        \* the process environment of the target: <<[name, value], ...>>
  modifications,  \* GetEnvModifications(): the pending list (envCallbacks)
  tempEnvMod,     \* the staging record of the RENDERDOC_EnvMod* entry points
  envBefore,      \* history: liveEnv when the last ApplyEnvironmentModification began
  modsApplied,    \* history: the pending list that apply was given
  applies,        \* history: how many times ApplyEnvironmentModification ran
  libState,       \* RenderDoc::Inst(): [logfile, options] as set by the boot calls
  \* ---- the controller ----
  params,         \* the public call: [op, logfile, opts, env, waitForExit]
  sys,            \* the build and the host: [WIN64, host64, target64]
  pc,             \* where the controller is
  hProcess,       \* InjectIntoProcess: the target handle, "unset" | NoHandle | "open" | "closed"
  isWow64,        \* InjectIntoProcess: BOOL isWow64
  loc,            \* InjectIntoProcess: uintptr_t loc, the remote library base
  controlident,   \* InjectIntoProcess: uint32_t controlident
  envPos,         \* InjectIntoProcess: env, as an index into params.env
  frame,          \* the remote call in progress: [funcName, data, dataLen, remoteMem, hThread, tid, back]
  retInject,      \* what InjectIntoProcess returned (NULL before it returns)
  retLaunch,      \* what LaunchAndInjectIntoProcess returned (NULL before)
  pi,             \* LaunchAndInjectIntoProcess: [hProcess, hThread] of the child
  \* ---- the operating system ----
  target,         \* the target process: [alive, suspendCount, ran, modules, mem, threads]
  helper,         \* the x86 renderdoccmd process: [state, exitCode, hThread, hProcess]
  faults,         \* operating-system failures injected so far
  \* ---- history ----
  callLog,        \* every InjectFunctionCall entered, in order: [funcName, env]
  execLog,        \* funcName of every remote thread that ran its function, in order
                  \* (SpecLib: every entry point called, with its argument: [funcName, arg])
  path,           \* the branch InjectIntoProcess took: "none" | "abort" | "delegate" | "direct"
  errors,         \* the kinds of error met so far
  remoteOp,       \* a remote alloc, write or thread creation was attempted
  identAtWait,    \* the identifier held when the wait for the target's exit began
  resLog,         \* what the current (or last) remote call did with its buffer and thread handle
  \* ---- FindRemoteDLL ----
  find            \* the locals of a FindRemoteDLL call followed step by step

libVars == <<liveEnv, modifications, tempEnvMod, envBefore, modsApplied, applies, libState>>

locals == <<hProcess, isWow64, loc, controlident, envPos, frame>>

ctlVars == <<params, sys, pc, hProcess, isWow64, loc, controlident, envPos, frame,
             retInject, retLaunch, pi>>

osVars == <<target, helper, faults>>

traceVars == <<callLog, execLog, path, errors, remoteOp, identAtWait>>

histVars == <<callLog, execLog, path, errors, remoteOp, identAtWait, resLog>>

vars == <<libVars, ctlVars, osVars, histVars, find>>

(***************************************************************************)
(* Bounds of the model.                                                    *)
(***************************************************************************)
MaxPending == 2      \* longest pending list explored
MaxApplies == 2      \* ApplyEnvironmentModification calls explored in one run

(***************************************************************************)
(* Characters and strings.                                                 *)
(***************************************************************************)
\* towlower on the characters the model uses
ToLower(c) ==
  CASE c = "X" -> "x"
    [] c = "Y" -> "y"
    [] c = "A" -> "a"
    [] c = "R" -> "r"
    [] c = "D" -> "d"
    [] OTHER   -> c

\* lowercase(): a string of the same size, every character through towlower
lowercase(in) == [i \in 1..Len(in) |-> ToLower(in[i])]

ModificationTypes ==
  {"Replace", "Append", "Prepend", "AppendColon", "PrependColon",
   "AppendSemiColon", "PrependSemiColon", "AppendPlatform", "PrependPlatform"}

EnvironmentModification(n, v, t) == [name |-> n, value |-> v, type |-> t]

(***************************************************************************)
(* The environment block and its map.                                      *)
(***************************************************************************)
\* GetEnvironmentStringsW: one "NAME=VALUE" string per variable
EnvironmentStrings(env) ==
  [i \in 1..Len(env) |-> env[i].name \o <<"=">> \o env[i].value]

\* wcschr(e, L'='): index of the first '=' of e
FirstEquals(e) == CHOOSE i \in 1..Len(e) : e[i] = "=" /\ \A j \in 1..(i - 1) : e[j] # "="

MapPut(m, k, v) == [x \in (DOMAIN m) \cup {k} |-> IF x = k THEN v ELSE m[x]]

RECURSIVE EnvMapFrom(_, _, _)
EnvMapFrom(block, i, ret) ==
  IF i > Len(block) THEN ret
  ELSE LET e      == block[i]
           equals == FirstEquals(e)
           name   == SubSeq(e, 1, equals - 1)
           value  == SubSeq(e, equals + 1, Len(e))
       IN  EnvMapFrom(block, i + 1, MapPut(ret, lowercase(name), value))

\* the map is keyed by the lowercased names
EnvStringToEnvMap(envstring) == EnvMapFrom(envstring, 1, <<>>)

\* SetEnvironmentVariableW: names compare ignoring case; an existing variable
\* keeps its name and takes the value, otherwise the variable is added
EnvIndexOf(env, name) ==
  {i \in 1..Len(env) : lowercase(env[i].name) = lowercase(name)}

SetEnvironmentVariableW(env, name, value) ==
  IF EnvIndexOf(env, name) # {}
  THEN [i \in 1..Len(env) |->
          IF i \in EnvIndexOf(env, name) THEN [name |-> env[i].name, value |-> value]
          ELSE env[i]]
  ELSE Append(env, [name |-> name, value |-> value])

(***************************************************************************)
(* ApplyEnvironmentModification.                                           *)
(***************************************************************************)
\* the key the edit is looked up with (a mutation: the name as given)
LookupKeyAsGiven(name) == name

\* wstring lowername = lowercase(name)
LookupKey(name) == lowercase(name)

\* the switch (a mutation: the separator is added whatever the existing value is)
MergeValueBareSeparator(type, value, mvalue) ==
  CASE type = "Replace" -> mvalue
    [] type = "Append"  -> value \o mvalue
    [] type = "AppendColon" -> value \o <<":">> \o mvalue
    [] type \in {"AppendPlatform", "AppendSemiColon"} -> value \o <<";">> \o mvalue
    [] type = "Prepend" -> mvalue \o value
    [] type = "PrependColon" -> mvalue \o <<":">> \o value
    [] type \in {"PrependPlatform", "PrependSemiColon"} -> mvalue \o <<";">> \o value
    [] OTHER -> value

\* the switch on m.type: value is the existing value (or empty), mvalue the edit's
MergeValue(type, value, mvalue) ==
  CASE type = "Replace" -> mvalue
    [] type = "Append"  -> value \o mvalue
    [] type = "AppendColon" ->
         (IF value # <<>> THEN value \o <<":">> ELSE value) \o mvalue
    [] type \in {"AppendPlatform", "AppendSemiColon"} ->
         (IF value # <<>> THEN value \o <<";">> ELSE value) \o mvalue
    [] type = "Prepend" -> mvalue \o value
    [] type = "PrependColon" ->
         IF value # <<>> THEN mvalue \o <<":">> \o value ELSE mvalue
    [] type \in {"PrependPlatform", "PrependSemiColon"} ->
         IF value # <<>> THEN mvalue \o <<";">> \o value ELSE mvalue
    [] OTHER -> value

\* one turn of the loop: the lookup in currentEnv, the switch, the commit
ApplyOneModification(env, currentEnv, m) ==
  LET lowername == LookupKey(m.name)
      found     == lowername \in DOMAIN currentEnv
      value     == IF found THEN currentEnv[lowername] ELSE <<>>
      name      == IF found THEN lowername ELSE m.name
  IN  SetEnvironmentVariableW(env, name, MergeValue(m.type, value, m.value))

RECURSIVE ApplyLoop(_, _, _, _)
ApplyLoop(env, currentEnv, mods, i) ==
  IF i > Len(mods) THEN env
  ELSE ApplyLoop(ApplyOneModification(env, currentEnv, mods[i]), currentEnv, mods, i + 1)

\* the environment after the loop: currentEnv is built once, before the loop
AppliedEnvironment(env, mods) ==
  ApplyLoop(env, EnvStringToEnvMap(EnvironmentStrings(env)), mods, 1)

\* the pending list after the loop (a mutation: it is not cleared)
ClearedNot(list) == list

\* modifications.clear()
Cleared(list) == <<>>

\* the whole of ApplyEnvironmentModification: the loop, then modifications.clear()
ApplyEnvironmentModification ==
  /\ applies < MaxApplies
  /\ liveEnv' = AppliedEnvironment(liveEnv, modifications)
  /\ modifications' = Cleared(modifications)
  /\ envBefore' = liveEnv
  /\ modsApplied' = modifications
  /\ applies' = applies + 1

\* the registration (a mutation: the record goes to the front of the list)
RegisterAtFront(modif) ==
  /\ Len(modifications) < MaxPending
  /\ modifications' = <<modif>> \o modifications

\* GetEnvModifications().push_back(modif)
RegisterEnvironmentModification(modif) ==
  /\ Len(modifications) < MaxPending
  /\ modifications' = Append(modifications, modif)

(***************************************************************************)
(* The exported entry points; arg is what the pointer points at, or NULL.  *)
(***************************************************************************)
\* a pointer is NULL or points at a value
NULL == <<>>
Ptr(x) == <<x>>
Deref(p) == p[1]

\* a handle or remote address that an operating-system call failed to produce
NoHandle == "NULL"

\* if(ident) *ident = RenderDoc::Inst().GetTargetControlIdent(): what *ident holds after
IdentWritten(ident) == IF ident # NULL THEN Ptr(libState.ident) ELSE ident

RENDERDOC_GetTargetControlIdent(ident) ==
  UNCHANGED libVars

RENDERDOC_SetCaptureOptions(opts) ==
  /\ libState' = IF opts # NULL THEN [libState EXCEPT !.options = opts] ELSE libState
  /\ UNCHANGED <<liveEnv, modifications, tempEnvMod, envBefore, modsApplied, applies>>

RENDERDOC_SetLogFile(log) ==
  /\ libState' = IF log # NULL THEN [libState EXCEPT !.logfile = log] ELSE libState
  /\ UNCHANGED <<liveEnv, modifications, tempEnvMod, envBefore, modsApplied, applies>>

RENDERDOC_EnvModName(name) ==
  /\ tempEnvMod' = IF name # NULL THEN [tempEnvMod EXCEPT !.name = Deref(name)] ELSE tempEnvMod
  /\ UNCHANGED <<liveEnv, modifications, envBefore, modsApplied, applies, libState>>

RENDERDOC_EnvModValue(value) ==
  /\ tempEnvMod' = IF value # NULL THEN [tempEnvMod EXCEPT !.value = Deref(value)] ELSE tempEnvMod
  /\ UNCHANGED <<liveEnv, modifications, envBefore, modsApplied, applies, libState>>

RENDERDOC_EnvMod(type) ==
  IF type # NULL
  THEN /\ tempEnvMod' = [tempEnvMod EXCEPT !.type = Deref(type)]
       /\ RegisterEnvironmentModification(tempEnvMod')
       /\ UNCHANGED <<liveEnv, envBefore, modsApplied, applies, libState>>
  ELSE UNCHANGED libVars

RENDERDOC_ApplyEnvMods(ignored) ==
  /\ ApplyEnvironmentModification
  /\ UNCHANGED <<tempEnvMod, libState>>

(***************************************************************************)
(* The applier on its own: any starting environment, any pending list.     *)
(***************************************************************************)
EditNames  == {<<"X">>, <<"x">>}
EditValues == {<<"a">>, <<"b">>}
Edits == {EnvironmentModification(n, v, t) :
            n \in EditNames, v \in EditValues, t \in ModificationTypes}

StartEnvironments ==
  {xs \o ys : xs \in {<<>>, <<[name |-> <<"X">>, value |-> <<>>]>>,
                      <<[name |-> <<"X">>, value |-> <<"a">>]>>,
                      <<[name |-> <<"x">>, value |-> <<"a">>]>>},
              ys \in {<<>>, <<[name |-> <<"Y">>, value |-> <<"b">>]>>}}

NoEnvMod == EnvironmentModification(<<>>, <<>>, "Replace")

NoLibState == [ident |-> 1, logfile |-> NULL, options |-> NULL]

\* the controller, the target and the helper when nothing is being injected
NoFrame == [funcName |-> "none", data |-> NULL, dataLen |-> 0, remoteMem |-> "unset",
            hThread |-> "unset", tid |-> 0, back |-> "none"]

NoTarget == [state |-> "none", suspendCount |-> 0, ran |-> FALSE, modules |-> <<>>,
             mem |-> NULL, threads |-> {}]

NoHelper == [state |-> "none", exitCode |-> 0, exitCodeRead |-> 0,
             hThread |-> "unset", hProcess |-> "unset", capopts |-> <<>>, options |-> NULL]

\* FindRemoteDLL not entered: i of the retry loop, what each snapshot attempt gave,
\* hModuleSnap, the position of me32, numModules, ret, and the error logged
NoFind == [i |-> 0, attempts |-> <<>>, hModuleSnap |-> NULL, me32 |-> 0, numModules |-> 0,
           ret |-> 0, logged |-> "none", probed |-> FALSE, deadAtEntry |-> FALSE]

NoPi == [hProcess |-> "unset", hThread |-> "unset", resumes |-> 0]

ControllerIdle ==
  /\ params = [op |-> "none", logfile |-> NULL, opts |-> NULL, env |-> NULL,
               waitForExit |-> FALSE]
  /\ sys = [WIN64 |-> TRUE, host64 |-> TRUE, target64 |-> TRUE]
  /\ pc = "done"
  /\ hProcess = "unset" /\ isWow64 = FALSE /\ loc = 0 /\ controlident = 0
  /\ envPos = 1 /\ frame = NoFrame /\ retInject = NULL /\ retLaunch = NULL
  /\ pi = NoPi /\ target = NoTarget /\ helper = NoHelper /\ faults = 0
  /\ callLog = <<>> /\ execLog = <<>> /\ path = "none"
  /\ errors = {} /\ remoteOp = FALSE /\ identAtWait = NULL /\ resLog = <<>>
  /\ find = NoFind

InitEnv ==
  /\ liveEnv \in StartEnvironments
  /\ modifications = <<>>
  /\ tempEnvMod = NoEnvMod
  /\ envBefore = <<>>
  /\ modsApplied = <<>>
  /\ applies = 0
  /\ libState = NoLibState
  /\ ControllerIdle

EnvRegister ==
  /\ applies = 0
  /\ \E m \in Edits : RegisterEnvironmentModification(m)
  /\ UNCHANGED <<liveEnv, tempEnvMod, envBefore, modsApplied, applies, libState>>
  /\ UNCHANGED <<ctlVars, osVars, histVars, find>>

EnvApply ==
  /\ RENDERDOC_ApplyEnvMods(NULL)
  /\ UNCHANGED <<ctlVars, osVars, histVars, find>>

NextEnv == EnvRegister \/ EnvApply

SpecEnv == InitEnv /\ [][NextEnv]_vars

(***************************************************************************)
(* The injection orchestrator.                                             *)
(***************************************************************************)
MaxEnv    == 2       \* longest env list passed to the public operations
MaxFaults == 1       \* operating-system failures injected in one run
MaxIdent  == 1       \* control identifiers and helper exit codes are 0..MaxIdent

\* trim(): the string without its leading and trailing blanks
RECURSIVE trim(_)
trim(str) ==
  IF str = <<>> THEN str
  ELSE IF Head(str) = " " THEN trim(Tail(str))
  ELSE IF str[Len(str)] = " " THEN trim(SubSeq(str, 1, Len(str) - 1))
  ELSE str

\* the env edits a caller passes, and the entry that ends the array
EnvEntry(k) ==
  IF k % 2 = 1 THEN EnvironmentModification(<<" ", "X">>, <<"a">>, "Replace")
  ELSE EnvironmentModification(<<"x">>, <<"b">>, "Append")

EnvArrays ==
  {[i \in 1..(n + 1) |-> IF i <= n THEN EnvEntry(i) ELSE EnvironmentModification(t, <<>>, "Replace")] :
      n \in 0..MaxEnv, t \in {<<>>, <<" ">>}}

LogFile == <<"l">>
OptionsBlob == <<0, 255, 16>>

\* (controller build, host, target): a 64-bit process needs a 64-bit host
Systems ==
  {s \in [WIN64 : BOOLEAN, host64 : BOOLEAN, target64 : BOOLEAN] :
     (s.WIN64 => s.host64) /\ (s.target64 => s.host64)}

\* the modules of a process before the capture library is loaded, and the library
BaseModules == <<[szModule |-> <<"a", "p", "p">>, modBaseAddr |-> 1]>>
LibModule == [szModule |-> <<"R", "D">>, modBaseAddr |-> 2]
LibName == <<"r", "d">>

RunningTarget == [state |-> "alive", suspendCount |-> 0, ran |-> TRUE,
                  modules |-> BaseModules, mem |-> NULL, threads |-> {}]

\* a child created without CREATE_SUSPENDED (a mutation of RunProcess)
RunningChild == [state |-> "alive", suspendCount |-> 0, ran |-> FALSE,
                 modules |-> BaseModules, mem |-> NULL, threads |-> {}]

\* CreateProcessW(..., CREATE_SUSPENDED | CREATE_UNICODE_ENVIRONMENT, ...)
SuspendedChild == [state |-> "alive", suspendCount |-> 1, ran |-> FALSE,
                   modules |-> BaseModules, mem |-> NULL, threads |-> {}]

Init ==
  /\ liveEnv = <<[name |-> <<"X">>, value |-> <<"c">>]>>
  /\ modifications = <<>>
  /\ tempEnvMod = NoEnvMod
  /\ envBefore = <<>> /\ modsApplied = <<>> /\ applies = 0
  /\ libState \in {[NoLibState EXCEPT !.ident = i] : i \in 1..MaxIdent}
  /\ params \in [op : {"InjectIntoProcess", "LaunchAndInjectIntoProcess"},
                 logfile : {NULL, Ptr(LogFile)}, opts : {NULL, Ptr(OptionsBlob)},
                 env : {NULL} \cup {Ptr(a) : a \in EnvArrays}, waitForExit : BOOLEAN]
  /\ sys \in Systems
  /\ pc = IF params.op = "InjectIntoProcess" THEN "I_open" ELSE "L_start"
  /\ hProcess = "unset" /\ isWow64 = FALSE /\ loc = 0 /\ controlident = 0
  /\ envPos = 1 /\ frame = NoFrame /\ retInject = NULL /\ retLaunch = NULL
  /\ pi = NoPi
  /\ target = IF params.op = "InjectIntoProcess" THEN RunningTarget ELSE NoTarget
  /\ helper = NoHelper /\ faults = 0
  /\ callLog = <<>> /\ execLog = <<>> /\ path = "none"
  /\ errors = {} /\ remoteOp = FALSE /\ identAtWait = NULL /\ resLog = <<>>
  /\ find = NoFind

\* an operating-system call may fail while the fault budget lasts
MayFail == faults < MaxFaults

Alive == target.state = "alive"

\* CloseHandle on a handle variable
Closed(h) == IF h = "open" THEN "closed" ELSE h

\* bool waitForExit of InjectIntoProcess: LaunchAndInjectIntoProcess passes false
WaitForExit == params.op = "InjectIntoProcess" /\ params.waitForExit

\* where control goes when InjectIntoProcess returns
AfterInject == IF params.op = "InjectIntoProcess" THEN "done" ELSE "L_closeproc"

---------------------------------------------------------------------------
\* LaunchAndInjectIntoProcess: GetProcAddress(..., "RENDERDOC_SetLogFile")
L_Start ==
  /\ pc = "L_start"
  /\ \/ /\ pc' = "L_run"
        /\ UNCHANGED <<retLaunch, faults>>
     \/ /\ MayFail
        /\ faults' = faults + 1
        /\ retLaunch' = Ptr(0)
        /\ pc' = "done"
  /\ UNCHANGED <<libVars, params, sys, locals, retInject, pi, target, helper, histVars, find>>

\* RunProcess: CreateProcessW with CREATE_SUSPENDED
RunProcess ==
  /\ pc = "L_run"
  /\ \/ /\ target' = SuspendedChild
        /\ pi' = [pi EXCEPT !.hProcess = "open", !.hThread = "open"]
        /\ pc' = "I_open"
        /\ UNCHANGED <<retLaunch, faults>>
     \/ /\ MayFail
        /\ faults' = faults + 1
        /\ retLaunch' = Ptr(0)
        /\ pc' = "done"
        /\ UNCHANGED <<target, pi>>
  /\ UNCHANGED <<libVars, params, sys, locals, retInject, helper, histVars, find>>

\* InjectIntoProcess: OpenProcess
I_OpenProcess ==
  /\ pc = "I_open"
  /\ \/ /\ hProcess' = "open"
        /\ UNCHANGED <<faults, errors>>
     \/ /\ MayFail
        /\ faults' = faults + 1
        /\ hProcess' = NoHandle
        /\ errors' = errors \cup {"open"}
  /\ pc' = "I_debugger"
  /\ UNCHANGED <<libVars, params, sys, isWow64, loc, controlident, envPos, frame,
                 retInject, retLaunch, pi, target, helper, callLog, execLog, path,
                 remoteOp, identAtWait, resLog, find>>

\* if(options.DelayForDebugger > 0): the CheckRemoteDebuggerPresent poll loop
I_DebuggerWait ==
  /\ pc = "I_debugger"
  /\ pc' = "I_bitness"
  /\ UNCHANGED <<libVars, params, sys, locals, retInject, retLaunch, pi, osVars, histVars, find>>

\* IsWow64Process(hProcess, &isWow64); on failure CloseHandle(hProcess), return 0
I_IsWow64Process ==
  /\ pc = "I_bitness"
  /\ \/ /\ hProcess # NoHandle
        /\ isWow64' = (sys.host64 /\ ~sys.target64)
        /\ pc' = IF sys.WIN64 THEN "I_win64" ELSE "I_self"
        /\ UNCHANGED <<hProcess, retInject, faults, path, errors>>
     \/ /\ hProcess = NoHandle \/ MayFail
        /\ faults' = IF hProcess = NoHandle THEN faults ELSE faults + 1
        /\ hProcess' = Closed(hProcess)
        /\ retInject' = Ptr(0)
        /\ path' = "abort"
        /\ errors' = errors \cup {"wow64"}
        /\ pc' = AfterInject
        /\ UNCHANGED isWow64
  /\ UNCHANGED <<libVars, params, sys, loc, controlident, envPos, frame, retLaunch, pi,
                 target, helper, callLog, execLog, remoteOp, identAtWait, resLog, find>>

\* the refusal (a mutation: the pair is never refused)
UnsupportedNever(selfWow64, targetWow64) == FALSE

\* if(selfWow64 && !isWow64): x86 renderdoc cannot capture an x64 process
Unsupported(selfWow64, targetWow64) == selfWow64 /\ ~targetWow64

\* !WIN64: IsWow64Process(hSelfProcess, &selfWow64) and the x86-on-x64 refusal
I_SelfWow64 ==
  /\ pc = "I_self"
  /\ \/ /\ LET selfWow64 == sys.host64
           IN  IF Unsupported(selfWow64, isWow64)
               THEN /\ hProcess' = Closed(hProcess)
                    /\ retInject' = Ptr(0)
                    /\ path' = "abort"
                    /\ errors' = errors \cup {"pair"}
                    /\ pc' = AfterInject
               ELSE /\ path' = "direct"
                    /\ pc' = "D_alloc"
                    /\ UNCHANGED <<hProcess, retInject, errors>>
        /\ UNCHANGED faults
     \/ /\ MayFail
        /\ faults' = faults + 1
        /\ retInject' = Ptr(0)
        /\ path' = "abort"
        /\ errors' = errors \cup {"wow64"}
        /\ pc' = AfterInject
        /\ UNCHANGED hProcess
  /\ UNCHANGED <<libVars, params, sys, isWow64, loc, controlident, envPos, frame,
                 retLaunch, pi, target, helper, callLog, execLog, remoteOp, identAtWait, resLog, find>>

\* WIN64: if(isWow64) farm off to the x86 renderdoccmd
I_Win64 ==
  /\ pc = "I_win64"
  /\ path' = IF isWow64 THEN "delegate" ELSE "direct"
  /\ pc' = IF isWow64 THEN "H_spawn" ELSE "D_alloc"
  /\ UNCHANGED <<libVars, params, sys, locals, retInject, retLaunch, pi, osVars,
                 callLog, execLog, errors, remoteOp, identAtWait, resLog, find>>

\* char('a' + n) for a nibble n
HexChars == <<"a", "b", "c", "d", "e", "f", "g", "h", "i", "j", "k", "l", "m", "n", "o", "p">>

\* the encoding (a mutation: the high nibble is not shifted down)
EncodeOptionsLowTwice(b) ==
  [j \in 1..(2 * Len(b)) |-> HexChars[(b[(j + 1) \div 2] % 16) + 1]]

\* optstr: for each byte 'a' + ((b[i] >> 4) & 0xf), then 'a' + (b[i] & 0xf)
EncodeOptions(b) ==
  [j \in 1..(2 * Len(b)) |->
     IF j % 2 = 1 THEN HexChars[((b[(j + 1) \div 2] \div 16) % 16) + 1]
     ELSE HexChars[(b[(j + 1) \div 2] % 16) + 1]]

\* the command line is built (optstr is read through opts itself, so a NULL opts
\* is a read of address 0, which ends the controller); then
\* CreateProcessW(NULL, commandLine, ..., CREATE_SUSPENDED, ...) of the helper
H_Spawn ==
  /\ pc = "H_spawn"
  /\ \/ /\ params.opts = NULL
        /\ pc' = "crashed"
        /\ UNCHANGED <<helper, retInject, faults, errors>>
     \/ /\ params.opts # NULL
        /\ helper' = [helper EXCEPT !.state = "suspended", !.hThread = "open",
                                    !.hProcess = "open",
                                    !.capopts = EncodeOptions(Deref(params.opts))]
        /\ pc' = "H_resume"
        /\ UNCHANGED <<retInject, faults, errors>>
     \/ /\ params.opts # NULL
        /\ MayFail
        /\ faults' = faults + 1
        /\ retInject' = Ptr(0)
        /\ errors' = errors \cup {"spawn"}
        /\ pc' = AfterInject
        /\ UNCHANGED helper
  /\ UNCHANGED <<libVars, params, sys, locals, retLaunch, pi, target, callLog, execLog,
                 path, remoteOp, identAtWait, resLog, find>>

\* ResumeThread(pi.hThread)
H_Resume ==
  /\ pc = "H_resume"
  /\ helper' = [helper EXCEPT !.state = "running"]
  /\ pc' = "H_wait"
  /\ UNCHANGED <<libVars, params, sys, locals, retInject, retLaunch, pi, target, faults,
                 histVars, find>>

\* the wait on the helper's primary thread (a mutation: it does not block)
HelperWaitReturnsAtOnce == TRUE

\* WaitForSingleObject(pi.hThread, INFINITE) returns: the helper's thread has ended
HelperWaitReturns == helper.state = "exited"

\* GetExitCodeProcess: the exit code, or STILL_ACTIVE for a process still running
GetExitCodeProcess(h) == IF h.state = "exited" THEN h.exitCode ELSE 259

\* WaitForSingleObject(pi.hThread, INFINITE); CloseHandle(pi.hThread)
H_Wait ==
  /\ pc = "H_wait"
  /\ HelperWaitReturns
  /\ helper' = [helper EXCEPT !.hThread = Closed(@)]
  /\ pc' = "H_exitcode"
  /\ UNCHANGED <<libVars, params, sys, locals, retInject, retLaunch, pi, target, faults,
                 histVars, find>>

\* GetExitCodeProcess(pi.hProcess, &exitCode); CloseHandle(pi.hProcess)
H_ExitCode ==
  /\ pc = "H_exitcode"
  /\ helper' = [helper EXCEPT !.exitCodeRead = GetExitCodeProcess(helper),
                             !.hProcess = Closed(@)]
  /\ pc' = "H_waitexit"
  /\ UNCHANGED <<libVars, params, sys, locals, retInject, retLaunch, pi, target, faults,
                 histVars, find>>

\* the wait on the target (a mutation: it does not block)
ProcessWaitReturnsAtOnce == TRUE

\* WaitForSingleObject(hProcess, INFINITE) returns: the target process has exited
ProcessWaitReturns == target.state = "exited"

\* if(waitForExit) WaitForSingleObject(hProcess, INFINITE)
H_WaitExit ==
  /\ pc = "H_waitexit"
  /\ WaitForExit => ProcessWaitReturns
  /\ identAtWait' = Ptr(helper.exitCodeRead)
  /\ pc' = "H_return"
  /\ UNCHANGED <<libVars, params, sys, locals, retInject, retLaunch, pi, osVars,
                 callLog, execLog, path, errors, remoteOp, resLog, find>>

\* CloseHandle(hProcess); return (uint32_t)exitCode
H_Return ==
  /\ pc = "H_return"
  /\ hProcess' = Closed(hProcess)
  /\ retInject' = Ptr(helper.exitCodeRead)
  /\ pc' = AfterInject
  /\ UNCHANGED <<libVars, params, sys, isWow64, loc, controlident, envPos, frame,
                 retLaunch, pi, osVars, histVars, find>>

---------------------------------------------------------------------------
\* the remote thread of the call in progress is still running
ThreadLive(tid) == \E t \in target.threads : t.id = tid

\* a mutation of the wait: a zero timeout, which returns while the thread runs
WaitReturnsAtOnce(h, tid) == TRUE

\* WaitForSingleObject(hThread, INFINITE) returns: the thread has terminated (or
\* the handle is NULL and the wait fails at once)
WaitReturns(h, tid) == h = NoHandle \/ ~ThreadLive(tid)

\* the id the next remote thread gets
NextThreadId == Len(callLog)

\* InjectDLL: VirtualAllocEx(hProcess, NULL, sizeof(dllPath), ...)
D_Alloc ==
  /\ pc = "D_alloc"
  /\ \/ /\ Alive
        /\ frame' = [NoFrame EXCEPT !.funcName = "LoadLibraryW", !.data = LibModule.szModule,
                                    !.dataLen = Len(LibModule.szModule) + 1,
                                    !.remoteMem = "mem", !.back = "I_find"]
        /\ target' = [target EXCEPT !.mem = Ptr("uninit")]
        /\ resLog' = <<"alloc">>
        /\ pc' = "D_write"
        /\ UNCHANGED <<faults, errors>>
     \/ /\ ~Alive \/ MayFail
        /\ faults' = IF Alive THEN faults + 1 ELSE faults
        /\ errors' = errors \cup {"alloc"}
        /\ resLog' = <<"alloc_failed">>
        /\ pc' = "I_find"
        /\ UNCHANGED <<frame, target>>
  /\ remoteOp' = TRUE
  /\ UNCHANGED <<libVars, params, sys, hProcess, isWow64, loc, controlident, envPos,
                 retInject, retLaunch, pi, helper, callLog, execLog, path, identAtWait, find>>

\* WriteProcessMemory(hProcess, remoteMem, dllPath, sizeof(dllPath), NULL)
D_Write ==
  /\ pc = "D_write"
  /\ target' = IF Alive THEN [target EXCEPT !.mem = Ptr(frame.data)] ELSE target
  /\ resLog' = Append(resLog, "write")
  /\ pc' = "D_thread"
  /\ UNCHANGED <<libVars, params, sys, locals, retInject, retLaunch, pi, helper, faults,
                 traceVars, find>>

\* CreateRemoteThread(hProcess, ..., LoadLibraryW, remoteMem, ...)
D_Thread ==
  /\ pc = "D_thread"
  /\ IF Alive
     THEN /\ frame' = [frame EXCEPT !.hThread = "open", !.tid = NextThreadId]
          /\ target' = [target EXCEPT !.threads = @ \cup
                          {[id |-> NextThreadId, funcName |-> frame.funcName,
                            arg |-> frame.remoteMem]}]
          /\ resLog' = Append(resLog, "thread")
          /\ pc' = "D_wait"
     ELSE /\ frame' = [frame EXCEPT !.hThread = NoHandle]
          /\ resLog' = Append(resLog, "thread_failed")
          /\ pc' = "D_free"
          /\ UNCHANGED target
  /\ UNCHANGED <<libVars, params, sys, hProcess, isWow64, loc, controlident, envPos,
                 retInject, retLaunch, pi, helper, faults, traceVars, find>>

\* WaitForSingleObject(hThread, INFINITE); CloseHandle(hThread)
D_Wait ==
  /\ pc = "D_wait"
  /\ WaitReturns(frame.hThread, frame.tid)
  /\ frame' = [frame EXCEPT !.hThread = "closed"]
  /\ resLog' = resLog \o <<"wait", "close">>
  /\ pc' = "D_free"
  /\ UNCHANGED <<libVars, params, sys, hProcess, isWow64, loc, controlident, envPos,
                 retInject, retLaunch, pi, osVars, traceVars, find>>

\* VirtualFreeEx(hProcess, remoteMem, 0, MEM_RELEASE)
D_Free ==
  /\ pc = "D_free"
  /\ target' = IF Alive THEN [target EXCEPT !.mem = NULL] ELSE target
  /\ frame' = NoFrame
  /\ resLog' = Append(resLog, "free")
  /\ pc' = "I_find"
  /\ UNCHANGED <<libVars, params, sys, hProcess, isWow64, loc, controlident, envPos,
                 retInject, retLaunch, pi, helper, faults, traceVars, find>>

\* wcsstr(modnameLower, libName): libName occurs in the lowercased module name
IsSubstring(needle, hay) ==
  \E k \in 0..(Len(hay) - Len(needle)) :
     \A j \in 1..Len(needle) : hay[k + j] = needle[j]

\* the test on a module (a mutation: the module name is not lowercased)
ModuleMatchesAsSpelled(libName, szModule) == IsSubstring(libName, szModule)

\* modnameLower is szModule run through towlower; wcsstr(modnameLower, libName)
ModuleMatches(libName, szModule) == IsSubstring(libName, lowercase(szModule))

\* the do/while over the snapshot: the base of the first module that matches, or 0
RECURSIVE ModuleWalk(_, _, _)
ModuleWalk(snapshot, libName, i) ==
  IF i > Len(snapshot) THEN 0
  ELSE IF ModuleMatches(libName, snapshot[i].szModule)
       THEN snapshot[i].modBaseAddr
       ELSE ModuleWalk(snapshot, libName, i + 1)

\* FindRemoteDLL given what CreateToolhelp32Snapshot produced: NULL for
\* INVALID_HANDLE_VALUE, or the modules (with none, Module32First fails)
FindRemoteDLL(hModuleSnap, libName) ==
  IF hModuleSnap = NULL THEN 0
  ELSE IF Deref(hModuleSnap) = <<>> THEN 0
  ELSE ModuleWalk(Deref(hModuleSnap), lowercase(libName), 1)

\* the branch on loc (a mutation: the calls are issued whatever loc is)
AfterFindUnchecked(l) == "C_log"

\* if(loc == 0) RDCERR(...) else { the boot-function calls }
AfterFind(l) == IF l = 0 THEN "I_wait" ELSE "C_log"

\* uintptr_t loc = FindRemoteDLL(pid, L"renderdoc.dll"); if(loc == 0) skip the calls
I_FindRemoteDLL ==
  /\ pc = "I_find"
  /\ \E snapshot \in {Ptr(target.modules), NULL} :
        /\ snapshot = NULL => (~Alive \/ MayFail)
        /\ snapshot # NULL => Alive
        /\ faults' = IF snapshot = NULL /\ Alive THEN faults + 1 ELSE faults
        /\ loc' = FindRemoteDLL(snapshot, LibName)
        /\ pc' = AfterFind(loc')
        /\ errors' = IF loc' = 0 THEN errors \cup {"notfound"} ELSE errors
  /\ UNCHANGED <<libVars, params, sys, hProcess, isWow64, controlident, envPos, frame,
                 retInject, retLaunch, pi, target, helper, callLog, execLog, path,
                 remoteOp, identAtWait, resLog, find>>

---------------------------------------------------------------------------
\* which env entry a call carries (0 for the calls that carry none)
EnvIndex(funcName) ==
  IF funcName \in {"RENDERDOC_EnvModName", "RENDERDOC_EnvModValue", "RENDERDOC_EnvMod"}
  THEN envPos ELSE 0

\* InjectFunctionCall(hProcess, loc, funcName, data, dataLen), up to the allocation
InjectFunctionCall(funcName, data, dataLen, back) ==
  IF dataLen = 0
  THEN /\ pc' = back
       /\ resLog' = <<>>
       /\ UNCHANGED <<frame, callLog>>
  ELSE /\ frame' = [NoFrame EXCEPT !.funcName = funcName, !.data = data,
                                   !.dataLen = dataLen, !.back = back]
       /\ resLog' = <<>>
       /\ callLog' = Append(callLog, [funcName |-> funcName, env |-> EnvIndex(funcName)])
       /\ pc' = "F_alloc"

CallUnchanged ==
  UNCHANGED <<libVars, params, sys, hProcess, isWow64, loc, controlident,
              retInject, retLaunch, pi, osVars, execLog, path, errors, remoteOp,
              identAtWait, find>>

\* if(logfile != NULL) InjectFunctionCall(..., "RENDERDOC_SetLogFile", logfile, strlen + 1)
C_Log ==
  /\ pc = "C_log"
  /\ IF params.logfile # NULL
     THEN InjectFunctionCall("RENDERDOC_SetLogFile", Deref(params.logfile),
                             Len(Deref(params.logfile)) + 1, "C_opts")
     ELSE pc' = "C_opts" /\ UNCHANGED <<frame, callLog, resLog, find>>
  /\ UNCHANGED envPos /\ CallUnchanged

\* if(opts != NULL) InjectFunctionCall(..., "RENDERDOC_SetCaptureOptions", opts, sizeof)
C_Opts ==
  /\ pc = "C_opts"
  /\ IF params.opts # NULL
     THEN InjectFunctionCall("RENDERDOC_SetCaptureOptions", Deref(params.opts),
                             Len(Deref(params.opts)), "C_ident")
     ELSE pc' = "C_ident" /\ UNCHANGED <<frame, callLog, resLog, find>>
  /\ UNCHANGED envPos /\ CallUnchanged

\* InjectFunctionCall(..., "RENDERDOC_GetTargetControlIdent", &controlident, 4)
C_Ident ==
  /\ pc = "C_ident"
  /\ InjectFunctionCall("RENDERDOC_GetTargetControlIdent", controlident, 4, "C_env")
  /\ UNCHANGED envPos /\ CallUnchanged

\* where the loop's break leads (a mutation: the closing call is skipped when the
\* loop sent no edit)
AfterEnvLoopIfEdits(pos) == IF pos > 1 THEN "C_apply" ELSE "I_wait"

\* the break leaves the for(;;) loop, still inside if(env): the closing call is next
AfterEnvLoop(pos) == "C_apply"

\* if(env): the head of the for(;;) loop: name = trim(env->name); if(name == "") break
C_Env ==
  /\ pc = "C_env"
  /\ IF params.env = NULL
     THEN pc' = "I_wait" /\ UNCHANGED <<frame, callLog, resLog, find>>
     ELSE IF trim(Deref(params.env)[envPos].name) = <<>>
          THEN pc' = AfterEnvLoop(envPos) /\ UNCHANGED <<frame, callLog, resLog, find>>
          ELSE InjectFunctionCall("RENDERDOC_EnvModName", trim(Deref(params.env)[envPos].name),
                                  Len(trim(Deref(params.env)[envPos].name)) + 1, "C_value")
  /\ UNCHANGED envPos /\ CallUnchanged

C_Value ==
  /\ pc = "C_value"
  /\ InjectFunctionCall("RENDERDOC_EnvModValue", Deref(params.env)[envPos].value,
                        Len(Deref(params.env)[envPos].value) + 1, "C_mod")
  /\ UNCHANGED envPos /\ CallUnchanged

\* InjectFunctionCall(..., "RENDERDOC_EnvMod", &type, sizeof(type)); env++
C_Mod ==
  /\ pc = "C_mod"
  /\ InjectFunctionCall("RENDERDOC_EnvMod", Deref(params.env)[envPos].type, 4, "C_next")
  /\ UNCHANGED envPos /\ CallUnchanged

C_Next ==
  /\ pc = "C_next"
  /\ envPos' = envPos + 1
  /\ pc' = "C_env"
  /\ UNCHANGED <<frame, callLog, resLog, find>> /\ CallUnchanged

\* InjectFunctionCall(..., "RENDERDOC_ApplyEnvMods", env, sizeof(EnvironmentModification))
C_Apply ==
  /\ pc = "C_apply"
  /\ InjectFunctionCall("RENDERDOC_ApplyEnvMods", Deref(params.env)[envPos], 3, "I_wait")
  /\ UNCHANGED envPos /\ CallUnchanged

\* VirtualAllocEx(hProcess, NULL, dataLen, ...): the result is not checked
F_Alloc ==
  /\ pc = "F_alloc"
  /\ \/ /\ Alive
        /\ frame' = [frame EXCEPT !.remoteMem = "mem"]
        /\ target' = [target EXCEPT !.mem = Ptr("uninit")]
        /\ resLog' = Append(resLog, "alloc")
        /\ UNCHANGED <<faults, errors>>
     \/ /\ ~Alive \/ MayFail
        /\ faults' = IF Alive THEN faults + 1 ELSE faults
        /\ frame' = [frame EXCEPT !.remoteMem = NoHandle]
        /\ errors' = errors \cup {"alloc"}
        /\ resLog' = Append(resLog, "alloc_failed")
        /\ UNCHANGED target
  /\ pc' = "F_write"
  /\ UNCHANGED <<libVars, params, sys, hProcess, isWow64, loc, controlident, envPos,
                 retInject, retLaunch, pi, helper, callLog, execLog, path, remoteOp,
                 identAtWait, find>>

\* WriteProcessMemory(hProcess, remoteMem, data, dataLen, &numWritten)
F_Write ==
  /\ pc = "F_write"
  /\ target' = IF Alive /\ frame.remoteMem # NoHandle
               THEN [target EXCEPT !.mem = Ptr(frame.data)] ELSE target
  /\ resLog' = Append(resLog, IF frame.remoteMem = NoHandle THEN "write_null" ELSE "write")
  /\ pc' = "F_thread"
  /\ UNCHANGED <<libVars, params, sys, locals, retInject, retLaunch, pi, helper, faults,
                 traceVars, find>>

\* CreateRemoteThread(hProcess, NULL, 0, func_remote, remoteMem, 0, NULL)
F_Thread ==
  /\ pc = "F_thread"
  /\ IF Alive
     THEN /\ frame' = [frame EXCEPT !.hThread = "open", !.tid = NextThreadId]
          /\ target' = [target EXCEPT !.threads = @ \cup
                          {[id |-> NextThreadId, funcName |-> frame.funcName,
                            arg |-> frame.remoteMem]}]
          /\ resLog' = Append(resLog, "thread")
     ELSE /\ frame' = [frame EXCEPT !.hThread = NoHandle]
          /\ resLog' = Append(resLog, "thread_failed")
          /\ UNCHANGED target
  /\ pc' = "F_wait"
  /\ UNCHANGED <<libVars, params, sys, hProcess, isWow64, loc, controlident, envPos,
                 retInject, retLaunch, pi, helper, faults, traceVars, find>>

\* WaitForSingleObject(hThread, INFINITE)
F_Wait ==
  /\ pc = "F_wait"
  /\ WaitReturns(frame.hThread, frame.tid)
  /\ resLog' = Append(resLog, "wait")
  /\ pc' = "F_read"
  /\ UNCHANGED <<libVars, params, sys, locals, retInject, retLaunch, pi, osVars, traceVars, find>>

\* ReadProcessMemory(hProcess, remoteMem, data, dataLen, &numWritten)
F_Read ==
  /\ pc = "F_read"
  /\ LET got == Alive /\ frame.remoteMem # NoHandle /\ target.mem # NULL
     IN  /\ frame' = IF got THEN [frame EXCEPT !.data = Deref(target.mem)] ELSE frame
         /\ controlident' =
              IF got /\ frame.funcName = "RENDERDOC_GetTargetControlIdent"
              THEN Deref(target.mem) ELSE controlident
  /\ resLog' = Append(resLog, "read")
  /\ pc' = "F_close"
  /\ UNCHANGED <<libVars, params, sys, hProcess, isWow64, loc, envPos,
                 retInject, retLaunch, pi, osVars, traceVars, find>>

\* CloseHandle(hThread)
F_Close ==
  /\ pc = "F_close"
  /\ frame' = [frame EXCEPT !.hThread = Closed(@)]
  /\ resLog' = Append(resLog, IF frame.hThread = NoHandle THEN "close_null" ELSE "close")
  /\ pc' = "F_free"
  /\ UNCHANGED <<libVars, params, sys, hProcess, isWow64, loc, controlident, envPos,
                 retInject, retLaunch, pi, osVars, traceVars, find>>

\* VirtualFreeEx(hProcess, remoteMem, 0, MEM_RELEASE), and the return to the caller
F_Free ==
  /\ pc = "F_free"
  /\ target' = IF Alive /\ frame.remoteMem # NoHandle
               THEN [target EXCEPT !.mem = NULL] ELSE target
  /\ frame' = NoFrame
  /\ resLog' = Append(resLog, IF frame.remoteMem = NoHandle THEN "free_null" ELSE "free")
  /\ pc' = frame.back
  /\ UNCHANGED <<libVars, params, sys, hProcess, isWow64, loc, controlident, envPos,
                 retInject, retLaunch, pi, helper, faults, traceVars, find>>

\* if(waitForExit) WaitForSingleObject(hProcess, INFINITE)
I_Wait ==
  /\ pc = "I_wait"
  /\ WaitForExit => ProcessWaitReturns
  /\ identAtWait' = Ptr(controlident)
  /\ pc' = "I_return"
  /\ UNCHANGED <<libVars, params, sys, locals, retInject, retLaunch, pi, osVars,
                 callLog, execLog, path, errors, remoteOp, resLog, find>>

\* what the direct path returns (a mutation: the identifier is dropped)
ReturnedIdentDropped == Ptr(0)

\* return controlident
ReturnedIdent == Ptr(controlident)

\* CloseHandle(hProcess); return controlident
I_Return ==
  /\ pc = "I_return"
  /\ hProcess' = Closed(hProcess)
  /\ retInject' = ReturnedIdent
  /\ pc' = AfterInject
  /\ UNCHANGED <<libVars, params, sys, isWow64, loc, controlident, envPos, frame,
                 retLaunch, pi, osVars, histVars, find>>

---------------------------------------------------------------------------
\* what follows CloseHandle(pi.hProcess) (a mutation: the ret == 0 test comes first)
AfterCloseProcessCheckFirst == IF retInject = Ptr(0) THEN "L_check" ELSE "L_resume1"

\* CloseHandle(pi.hProcess); ResumeThread(pi.hThread); ...
AfterCloseProcess == "L_resume1"

\* LaunchAndInjectIntoProcess after InjectIntoProcess: CloseHandle(pi.hProcess)
L_CloseProcess ==
  /\ pc = "L_closeproc"
  /\ pi' = [pi EXCEPT !.hProcess = Closed(@)]
  /\ pc' = AfterCloseProcess
  /\ UNCHANGED <<libVars, params, sys, locals, retInject, retLaunch, osVars, histVars, find>>

\* ResumeThread: the suspend count goes down by one, and not below zero
ResumeThread(t) ==
  IF t.state = "alive" /\ t.suspendCount > 0
  THEN [t EXCEPT !.suspendCount = @ - 1] ELSE t

\* the first ResumeThread(pi.hThread)
L_Resume1 ==
  /\ pc = "L_resume1"
  /\ target' = ResumeThread(target)
  /\ pi' = [pi EXCEPT !.resumes = @ + 1]
  /\ pc' = "L_resume2"
  /\ UNCHANGED <<libVars, params, sys, locals, retInject, retLaunch, helper, faults,
                 histVars, find>>

\* the second ResumeThread(pi.hThread)
L_Resume2 ==
  /\ pc = "L_resume2"
  /\ target' = ResumeThread(target)
  /\ pi' = [pi EXCEPT !.resumes = @ + 1]
  /\ pc' = "L_check"
  /\ UNCHANGED <<libVars, params, sys, locals, retInject, retLaunch, helper, faults,
                 histVars, find>>

\* if(ret == 0) { CloseHandle(pi.hThread); return 0; }
L_Check ==
  /\ pc = "L_check"
  /\ IF retInject = Ptr(0)
     THEN /\ pi' = [pi EXCEPT !.hThread = Closed(@)]
          /\ retLaunch' = Ptr(0)
          /\ pc' = "done"
     ELSE /\ pc' = "L_wait"
          /\ UNCHANGED <<pi, retLaunch>>
  /\ UNCHANGED <<libVars, params, sys, locals, retInject, osVars, histVars, find>>

\* if(waitForExit) WaitForSingleObject(pi.hThread, INFINITE)
L_Wait ==
  /\ pc = "L_wait"
  /\ params.waitForExit => target.state = "exited"
  /\ pc' = "L_closethread"
  /\ UNCHANGED <<libVars, params, sys, locals, retInject, retLaunch, pi, osVars, histVars, find>>

\* CloseHandle(pi.hThread); return ret
L_CloseThread ==
  /\ pc = "L_closethread"
  /\ pi' = [pi EXCEPT !.hThread = Closed(@)]
  /\ retLaunch' = retInject
  /\ pc' = "done"
  /\ UNCHANGED <<libVars, params, sys, locals, retInject, osVars, histVars, find>>

---------------------------------------------------------------------------
\* what the entry point named funcName does inside the capture library
RemoteFunction(funcName, arg) ==
  IF funcName = "RENDERDOC_SetLogFile" THEN RENDERDOC_SetLogFile(arg)
  ELSE IF funcName = "RENDERDOC_SetCaptureOptions" THEN RENDERDOC_SetCaptureOptions(arg)
  ELSE IF funcName = "RENDERDOC_GetTargetControlIdent" THEN RENDERDOC_GetTargetControlIdent(arg)
  ELSE IF funcName = "RENDERDOC_EnvModName" THEN RENDERDOC_EnvModName(arg)
  ELSE IF funcName = "RENDERDOC_EnvModValue" THEN RENDERDOC_EnvModValue(arg)
  ELSE IF funcName = "RENDERDOC_EnvMod" THEN RENDERDOC_EnvMod(arg)
  ELSE IF funcName = "RENDERDOC_ApplyEnvMods" THEN RENDERDOC_ApplyEnvMods(arg)
  ELSE UNCHANGED libVars

\* a remote thread runs its start routine on its argument and terminates; the
\* argument points at the remote buffer (LoadLibraryW may fail to load the file)
RemoteThreadRuns ==
  /\ Alive
  /\ \E t \in target.threads, loaded \in BOOLEAN :
       LET arg == IF t.arg = NoHandle THEN NULL ELSE target.mem
       IN  /\ ~loaded => (t.funcName = "LoadLibraryW" /\ MayFail)
           /\ faults' = IF loaded THEN faults ELSE faults + 1
           /\ RemoteFunction(t.funcName, arg)
           /\ target' = [target EXCEPT
                 !.threads = @ \ {t},
                 !.mem = IF t.funcName = "RENDERDOC_GetTargetControlIdent"
                         THEN IdentWritten(arg) ELSE @,
                 !.modules = IF t.funcName = "LoadLibraryW" /\ loaded /\ arg # NULL
                             THEN Append(@, LibModule) ELSE @]
           /\ execLog' = Append(execLog, t.funcName)
  /\ UNCHANGED <<ctlVars, helper, callLog, path, errors, remoteOp, identAtWait, resLog, find>>

\* the primary thread of the target runs the target's own code
TargetRuns ==
  /\ Alive /\ target.suspendCount = 0 /\ ~target.ran
  /\ target' = [target EXCEPT !.ran = TRUE]
  /\ UNCHANGED <<libVars, ctlVars, helper, faults, histVars, find>>

\* the target exits (or crashes, or is killed): its threads, memory and library go
TargetDies ==
  /\ Alive /\ pc # "done"
  /\ target' = [target EXCEPT !.state = "exited", !.threads = {}, !.mem = NULL,
                              !.modules = <<>>]
  /\ liveEnv' = <<>> /\ modifications' = <<>> /\ tempEnvMod' = NoEnvMod
  /\ envBefore' = <<>> /\ modsApplied' = <<>> /\ applies' = 0
  /\ libState' = [NoLibState EXCEPT !.ident = libState.ident]
  /\ UNCHANGED <<ctlVars, helper, faults, histVars, find>>

\* the x86 renderdoccmd does its work and exits with the control identifier, or 0
HelperRuns ==
  /\ helper.state = "running"
  /\ \E code \in 0..MaxIdent :
       helper' = [helper EXCEPT !.state = "exited", !.exitCode = code]
  /\ UNCHANGED <<libVars, ctlVars, target, faults, histVars, find>>

Next ==
  \/ L_Start \/ RunProcess
  \/ I_OpenProcess \/ I_DebuggerWait \/ I_IsWow64Process \/ I_SelfWow64 \/ I_Win64
  \/ H_Spawn \/ H_Resume \/ H_Wait \/ H_ExitCode \/ H_WaitExit \/ H_Return
  \/ D_Alloc \/ D_Write \/ D_Thread \/ D_Wait \/ D_Free
  \/ I_FindRemoteDLL
  \/ C_Log \/ C_Opts \/ C_Ident \/ C_Env \/ C_Value \/ C_Mod \/ C_Next \/ C_Apply
  \/ F_Alloc \/ F_Write \/ F_Thread \/ F_Wait \/ F_Read \/ F_Close \/ F_Free
  \/ I_Wait \/ I_Return
  \/ L_CloseProcess \/ L_Resume1 \/ L_Resume2 \/ L_Check \/ L_Wait \/ L_CloseThread
  \/ RemoteThreadRuns \/ TargetRuns \/ TargetDies \/ HelperRuns

Spec == Init /\ [][Next]_vars

(***************************************************************************)
(* FindRemoteDLL followed step by step (SpecFind).                         *)
(***************************************************************************)
MaxModules == 2      \* longest module list of a target
SnapshotRetries == 10

\* the modules a target may hold, in any order
ModulePool == {[szModule |-> <<"a", "p", "p">>, modBaseAddr |-> 1],
               LibModule,
               [szModule |-> <<"X", "r", "d">>, modBaseAddr |-> 3]}

ModuleLists ==
  {ms \in UNION {[1..n -> ModulePool] : n \in 0..MaxModules} :
     \A i, j \in 1..Len(ms) : i # j => ms[i] # ms[j]}

LibQueries == {LibName, <<"R", "D">>}

InitFind ==
  /\ liveEnv = <<>> /\ modifications = <<>> /\ tempEnvMod = NoEnvMod
  /\ envBefore = <<>> /\ modsApplied = <<>> /\ applies = 0 /\ libState = NoLibState
  /\ params \in {[op |-> "FindRemoteDLL", libName |-> q] : q \in LibQueries}
  /\ sys = [WIN64 |-> TRUE, host64 |-> TRUE, target64 |-> TRUE]
  /\ pc = "S_enter"
  /\ hProcess = "unset" /\ isWow64 = FALSE /\ loc = 0 /\ controlident = 0
  /\ envPos = 1 /\ frame = NoFrame /\ retInject = NULL /\ retLaunch = NULL
  /\ pi = NoPi /\ helper = NoHelper /\ faults = 0
  /\ target \in {[RunningTarget EXCEPT !.state = st, !.modules = ms] :
                   st \in {"alive", "exited"}, ms \in ModuleLists}
  /\ callLog = <<>> /\ execLog = <<>> /\ path = "none"
  /\ errors = {} /\ remoteOp = FALSE /\ identAtWait = NULL /\ resLog = <<>>
  /\ find = NoFind

FindUnchanged ==
  UNCHANGED <<libVars, params, sys, hProcess, isWow64, loc, controlident, envPos, frame,
              retInject, retLaunch, pi, target, helper, faults, histVars>>

\* libName = strlower(libName); for(int i = 0; ...
S_Enter ==
  /\ pc = "S_enter"
  /\ find' = [NoFind EXCEPT !.deadAtEntry = ~Alive]
  /\ pc' = "S_snapshot"
  /\ FindUnchanged

\* the test for another attempt (a mutation: any failure is retried)
RetriesOnAnyError(got) == got # "ok"

\* if(err == ERROR_BAD_LENGTH) continue
Retries(got) == got = "ERROR_BAD_LENGTH"

\* one turn of the retry loop: CreateToolhelp32Snapshot, then continue or break
S_Snapshot ==
  /\ pc = "S_snapshot"
  /\ \E got \in {"ok", "ERROR_BAD_LENGTH", "other"} :
       /\ find' = [find EXCEPT
             !.attempts = Append(@, got),
             !.hModuleSnap = IF got = "ok" THEN Ptr(target.modules) ELSE NULL,
             !.i = IF Retries(got) THEN @ + 1 ELSE @]
       /\ pc' = IF Retries(got) /\ find.i + 1 < SnapshotRetries
                THEN "S_snapshot" ELSE "S_check"
  /\ FindUnchanged

\* if(hModuleSnap == INVALID_HANDLE_VALUE) { RDCERR(...); return 0; }
S_Check ==
  /\ pc = "S_check"
  /\ IF find.hModuleSnap = NULL
     THEN /\ find' = [find EXCEPT !.logged = "Couldn't create toolhelp dump"]
          /\ loc' = 0
          /\ pc' = "done"
     ELSE /\ pc' = "S_first"
          /\ UNCHANGED <<find, loc>>
  /\ UNCHANGED <<libVars, params, sys, hProcess, isWow64, controlident, envPos, frame,
                 retInject, retLaunch, pi, target, helper, faults, histVars>>

\* Module32First(hModuleSnap, &me32): fails on an empty snapshot, and may fail for
\* a target that has exited
S_First ==
  /\ pc = "S_first"
  /\ \E success \in BOOLEAN :
       /\ success => Deref(find.hModuleSnap) # <<>>
       /\ ~success => (Deref(find.hModuleSnap) = <<>> \/ ~Alive)
       /\ IF success
          THEN /\ find' = [find EXCEPT !.me32 = 1]
               /\ pc' = "S_walk"
               /\ UNCHANGED loc
          ELSE /\ find' = [find EXCEPT !.logged = "Couldn't get first module",
                                       !.hModuleSnap = NULL]
               /\ loc' = 0
               /\ pc' = "done"
  /\ UNCHANGED <<libVars, params, sys, hProcess, isWow64, controlident, envPos, frame,
                 retInject, retLaunch, pi, target, helper, faults, histVars>>

\* the loop goes on (a mutation: it goes on after a hit, to the last module)
WalkGoesOnAfterHit(ret, more) == more

\* while(ret == 0 && Module32Next(hModuleSnap, &me32))
WalkGoesOn(ret, more) == ret = 0 /\ more

\* one turn of the do/while: lower the module name, count it, test it, step on
S_Walk ==
  /\ pc = "S_walk"
  /\ LET snapshot == Deref(find.hModuleSnap)
         me       == snapshot[find.me32]
         ret      == IF ModuleMatches(lowercase(params.libName), me.szModule)
                     THEN me.modBaseAddr ELSE find.ret
         goesOn   == WalkGoesOn(ret, find.me32 < Len(snapshot))
     IN  /\ find' = [find EXCEPT !.numModules = @ + 1, !.ret = ret,
                                 !.me32 = IF goesOn THEN @ + 1 ELSE @]
         /\ pc' = IF goesOn THEN "S_walk" ELSE IF ret = 0 THEN "S_probe" ELSE "S_close"
  /\ FindUnchanged

\* if(ret == 0): OpenProcess(PROCESS_QUERY_INFORMATION), GetExitCodeProcess, and the
\* error that is logged; OpenProcess may fail
S_Probe ==
  /\ pc = "S_probe"
  /\ \E h \in {NoHandle, "open"} :
       LET exitCode == IF h # NoHandle /\ Alive THEN 259 ELSE 0
       IN  find' = [find EXCEPT
              !.probed = TRUE,
              !.logged = IF h = NoHandle \/ exitCode # 259
                         THEN "no longer available" ELSE "Couldn't find module"]
  /\ pc' = "S_close"
  /\ FindUnchanged

\* CloseHandle(hModuleSnap); return ret
S_Close ==
  /\ pc = "S_close"
  /\ find' = [find EXCEPT !.hModuleSnap = NULL]
  /\ loc' = find.ret
  /\ pc' = "done"
  /\ UNCHANGED <<libVars, params, sys, hProcess, isWow64, controlident, envPos, frame,
                 retInject, retLaunch, pi, target, helper, faults, histVars>>

\* the target exits while FindRemoteDLL runs
S_TargetDies ==
  /\ pc \notin {"S_enter", "done"} /\ Alive
  /\ target' = [target EXCEPT !.state = "exited"]
  /\ UNCHANGED <<libVars, ctlVars, helper, faults, histVars, find>>

NextFind ==
  \/ S_Enter \/ S_Snapshot \/ S_Check \/ S_First \/ S_Walk \/ S_Probe \/ S_Close
  \/ S_TargetDies

SpecFind == InitFind /\ [][NextFind]_vars

\* the calling thread keeps running: FindRemoteDLL's own steps are taken
SpecFindFair ==
  SpecFind /\ WF_vars(S_Enter \/ S_Snapshot \/ S_Check \/ S_First \/ S_Walk \/ S_Probe \/ S_Close)

(***************************************************************************)
(* The capture-options encoding on its own (SpecEnc).                      *)
(***************************************************************************)
MaxBlob == 2         \* longest blob built from SampleBytes
SampleBytes == {0, 15, 16, 171, 255}

Blobs ==
  UNION {[1..n -> SampleBytes] : n \in 0..MaxBlob}
    \cup {<<b>> : b \in 0..255} \cup {OptionsBlob}

InitEnc ==
  /\ liveEnv = <<>> /\ modifications = <<>> /\ tempEnvMod = NoEnvMod
  /\ envBefore = <<>> /\ modsApplied = <<>> /\ applies = 0 /\ libState = NoLibState
  /\ params \in {[op |-> "EncodeOptions", opts |-> Ptr(b)] : b \in Blobs}
  /\ sys = [WIN64 |-> TRUE, host64 |-> TRUE, target64 |-> FALSE]
  /\ pc = "E_encode"
  /\ hProcess = "unset" /\ isWow64 = FALSE /\ loc = 0 /\ controlident = 0
  /\ envPos = 1 /\ frame = NoFrame /\ retInject = NULL /\ retLaunch = NULL
  /\ pi = NoPi /\ target = NoTarget /\ helper = NoHelper /\ faults = 0
  /\ callLog = <<>> /\ execLog = <<>> /\ path = "none"
  /\ errors = {} /\ remoteOp = FALSE /\ identAtWait = NULL /\ resLog = <<>>
  /\ find = NoFind

\* the controller writes --capopts="<optstr>"
E_Encode ==
  /\ pc = "E_encode"
  /\ helper' = [helper EXCEPT !.capopts = EncodeOptions(Deref(params.opts))]
  /\ pc' = "E_decode"
  /\ UNCHANGED <<libVars, params, sys, locals, retInject, retLaunch, pi, target, faults,
                 histVars, find>>

\* the nibble a character stands for
HexValue(c) == CHOOSE n \in 0..15 : HexChars[n + 1] = c

\* the reader of --capopts: two characters give one byte, high nibble first
DecodeOptions(str) ==
  [i \in 1..(Len(str) \div 2) |-> (HexValue(str[(2 * i) - 1]) * 16) + HexValue(str[2 * i])]

\* the helper reads its --capopts argument back into the options
E_Decode ==
  /\ pc = "E_decode"
  /\ helper' = [helper EXCEPT !.options = Ptr(DecodeOptions(helper.capopts))]
  /\ pc' = "done"
  /\ UNCHANGED <<libVars, params, sys, locals, retInject, retLaunch, pi, target, faults,
                 histVars, find>>

NextEnc == E_Encode \/ E_Decode

SpecEnc == InitEnc /\ [][NextEnc]_vars

(***************************************************************************)
(* The exported env entry points on their own (SpecLib): any caller, any   *)
(* order, null and non-null arguments.                                     *)
(***************************************************************************)
MaxCalls == 6        \* entry-point calls explored in one run

NameArgs  == {NULL, Ptr(<<"X">>)}
ValueArgs == {NULL, Ptr(<<"a">>), Ptr(<<"b">>)}
TypeArgs  == {NULL, Ptr("Append")}

InitLib ==
  /\ liveEnv = <<>>
  /\ modifications = <<>>
  /\ tempEnvMod = NoEnvMod
  /\ envBefore = <<>>
  /\ modsApplied = <<>>
  /\ applies = 0
  /\ libState = NoLibState
  /\ ControllerIdle

\* the call is recorded; nothing outside the library moves
LibCalled(funcName, arg) ==
  /\ Len(execLog) < MaxCalls
  /\ execLog' = Append(execLog, [funcName |-> funcName, arg |-> arg])
  /\ UNCHANGED <<ctlVars, osVars, callLog, path, errors, remoteOp, identAtWait, resLog, find>>

LibEnvModName ==
  \E name \in NameArgs :
    RENDERDOC_EnvModName(name) /\ LibCalled("RENDERDOC_EnvModName", name)

LibEnvModValue ==
  \E value \in ValueArgs :
    RENDERDOC_EnvModValue(value) /\ LibCalled("RENDERDOC_EnvModValue", value)

LibEnvMod ==
  \E type \in TypeArgs :
    RENDERDOC_EnvMod(type) /\ LibCalled("RENDERDOC_EnvMod", type)

LibApplyEnvMods ==
  RENDERDOC_ApplyEnvMods(NULL) /\ LibCalled("RENDERDOC_ApplyEnvMods", NULL)

NextLib == LibEnvModName \/ LibEnvModValue \/ LibEnvMod \/ LibApplyEnvMods

SpecLib == InitLib /\ [][NextLib]_vars

(***************************************************************************)
(* Claims about the applier (checked under SpecEnv).                       *)
(***************************************************************************)
\* the names of env, lowercased
LowerNames(env) == {lowercase(env[i].name) : i \in 1..Len(env)}

\* the value env holds for a lowercased name
ValueOf(env, lname) ==
  env[CHOOSE i \in 1..Len(env) : lowercase(env[i].name) = lname].value

\* the values of env by lowercased name
ValuesOf(env) == [k \in LowerNames(env) |-> ValueOf(env, k)]

\* the reference merge: every edit sees the value the earlier edits left
RECURSIVE SequencedValues(_, _, _)
SequencedValues(map, mods, i) ==
  IF i > Len(mods) THEN map
  ELSE LET k   == lowercase(mods[i].name)
           old == IF k \in DOMAIN map THEN map[k] ELSE <<>>
       IN  SequencedValues(MapPut(map, k, MergeValue(mods[i].type, old, mods[i].value)),
                           mods, i + 1)

\* C9 (as claimed): after an apply every variable holds the value of the
\* sequenced merge of the applied list, each edit applied to the value left by
\* the earlier edits on the same variable, for any starting environment; so
\* [{X,a,Replace},{X,b,Append}] leaves X = ab.
C9_EditsAreSequenced ==
  applies > 0 => ValuesOf(liveEnv) = SequencedValues(ValuesOf(envBefore), modsApplied, 1)

\* the edits of the applied list on the variable of edit i
SameVariable(mods, i) ==
  {j \in 1..Len(mods) : lowercase(mods[j].name) = lowercase(mods[i].name)}

\* C10: a variable of the live environment whose name equals the edit's name
\* ignoring case supplies the existing value and is the variable updated: after
\* the apply exactly one variable has that name ignoring case, it is the old
\* variable (its casing kept) and holds the merged value; when there was no
\* such variable, the one variable created has the edit's casing. (The value
\* is stated for a variable that one edit of the list names.)
C10_CaseInsensitiveHit ==
  applies > 0 =>
    \A i \in 1..Len(modsApplied) :
      LET m    == modsApplied[i]
          k    == lowercase(m.name)
          now  == {j \in 1..Len(liveEnv) : lowercase(liveEnv[j].name) = k}
          was  == {j \in 1..Len(envBefore) : lowercase(envBefore[j].name) = k}
      IN  /\ Cardinality(now) = 1
          /\ \A j \in now :
               /\ was # {} => \E h \in was : liveEnv[j].name = envBefore[h].name
               /\ was = {} => liveEnv[j].name \in {modsApplied[e].name : e \in SameVariable(modsApplied, i)}
               /\ (was = {} /\ SameVariable(modsApplied, i) = {i}) => liveEnv[j].name = m.name
               /\ SameVariable(modsApplied, i) = {i} =>
                    liveEnv[j].value =
                      MergeValue(m.type, IF was = {} THEN <<>> ELSE ValueOf(envBefore, k), m.value)

\* X=a and the edit {x, b, AppendSemiColon}: the live variable X holds a;b
C10_Witness ==
  /\ applies = 1
  /\ envBefore = <<[name |-> <<"X">>, value |-> <<"a">>]>>
  /\ modsApplied = <<EnvironmentModification(<<"x">>, <<"b">>, "AppendSemiColon")>>
  /\ liveEnv = <<[name |-> <<"X">>, value |-> <<"a", ";", "b">>]>>

\* the separator of a kind, and the side the edit value goes to
Separator(type) ==
  IF type \in {"AppendColon", "PrependColon"} THEN <<":">>
  ELSE IF type \in {"AppendSemiColon", "PrependSemiColon", "AppendPlatform", "PrependPlatform"}
       THEN <<";">>
       ELSE <<>>

Appends(type) == type \in {"Append", "AppendColon", "AppendSemiColon", "AppendPlatform"}

\* the value the kind prescribes for an existing value old
ValueByKind(type, old, value) ==
  IF type = "Replace" \/ old = <<>> THEN value
  ELSE IF Appends(type) THEN old \o Separator(type) \o value
       ELSE value \o Separator(type) \o old

\* C11: after an apply of a single edit the variable holds the value its kind
\* prescribes: the edit value for Replace; old+value for Append and value+old for
\* Prepend; old, separator, value (or the reverse) for the separator kinds when the
\* existing value is non-empty, and exactly the edit value when it is empty or the
\* variable is absent; every other variable keeps its value.
C11_SingleEditByKind ==
  (applies > 0 /\ Len(modsApplied) = 1) =>
    LET m   == modsApplied[1]
        k   == lowercase(m.name)
        old == IF k \in LowerNames(envBefore) THEN ValueOf(envBefore, k) ELSE <<>>
    IN  /\ ValuesOf(liveEnv) = MapPut(ValuesOf(envBefore), k, ValueByKind(m.type, old, m.value))
        /\ Len(liveEnv) = Cardinality(LowerNames(liveEnv))

\* no X and the edit {X, a, AppendColon}: X holds a, with no leading colon
C11_Witness ==
  /\ applies = 1
  /\ envBefore = <<[name |-> <<"Y">>, value |-> <<"b">>]>>
  /\ modsApplied = <<EnvironmentModification(<<"X">>, <<"a">>, "AppendColon")>>
  /\ liveEnv = <<[name |-> <<"Y">>, value |-> <<"b">>], [name |-> <<"X">>, value |-> <<"a">>]>>

\* C12: an apply leaves the pending list empty, and an apply that follows another
\* with no edit registered in between changes no variable.
C12_ApplyDrains ==
  /\ applies > 0 => modifications = <<>>
  /\ applies > 1 => (modsApplied = <<>> /\ liveEnv = envBefore)

\* the first apply appended b to X=a, and a second apply has run
C12_Witness ==
  /\ applies = 2 /\ modifications = <<>> /\ modsApplied = <<>>
  /\ liveEnv = <<[name |-> <<"X">>, value |-> <<"a", "b">>]>> /\ envBefore = liveEnv


(***************************************************************************)
(* Claims about the orchestrator (checked under Spec).                     *)
(***************************************************************************)
IsPrefix(a, b) == Len(a) <= Len(b) /\ a = SubSeq(b, 1, Len(a))

Call(f, k) == [funcName |-> f, env |-> k]

\* the number of edits in the caller's array: the entries before the first one
\* whose trimmed name is empty
EditCount ==
  IF params.env = NULL THEN 0
  ELSE LET arr == Deref(params.env)
       IN  CHOOSE n \in 0..(Len(arr) - 1) :
             /\ trim(arr[n + 1].name) = <<>>
             /\ \A i \in 1..n : trim(arr[i].name) # <<>>

EnvCallNames == <<"RENDERDOC_EnvModName", "RENDERDOC_EnvModValue", "RENDERDOC_EnvMod">>

\* the calls the claimed order prescribes, short of the closing ApplyEnvMods
OrderedCalls ==
  (IF params.logfile # NULL THEN <<Call("RENDERDOC_SetLogFile", 0)>> ELSE <<>>)
  \o (IF params.opts # NULL THEN <<Call("RENDERDOC_SetCaptureOptions", 0)>> ELSE <<>>)
  \o <<Call("RENDERDOC_GetTargetControlIdent", 0)>>
  \o [j \in 1..(3 * EditCount) |-> Call(EnvCallNames[((j - 1) % 3) + 1], ((j - 1) \div 3) + 1)]

ApplyCall == Call("RENDERDOC_ApplyEnvMods", 0)

\* the direct path has issued all the calls it is going to issue
CallsFinished == path = "direct" /\ loc # 0 /\ (pc \in {"I_wait", "I_return"} \/ retInject # NULL)

ExecutedCalls == SelectSeq(execLog, LAMBDA f : f # "LoadLibraryW")

\* C1: on the direct path with the library located, the remote calls are issued in
\* the order SetLogFile (iff logfile is non-null), SetCaptureOptions (iff options is
\* non-null), GetTargetControlIdent, then Name/Value/EnvMod for each edit in list
\* order, then ApplyEnvMods last (always there when an edit was sent); the calls
\* execute in the target in the order issued; and a remote thread exists only while
\* the controller waits on it, so there is never more than one.
C1_BootCallOrder ==
  /\ IsPrefix(callLog, OrderedCalls \o <<ApplyCall>>)
  /\ CallsFinished => /\ callLog \in {OrderedCalls, OrderedCalls \o <<ApplyCall>>}
                      /\ EditCount > 0 => callLog = OrderedCalls \o <<ApplyCall>>
  /\ IsPrefix(ExecutedCalls, [i \in 1..Len(callLog) |-> callLog[i].funcName])
  /\ Cardinality(target.threads) <= 1
  /\ \A t \in target.threads : pc \in {"D_wait", "F_wait"} /\ t.id = frame.tid

C1_Witness ==
  /\ pc = "done" /\ path = "direct" /\ Alive
  /\ params.logfile # NULL /\ params.opts # NULL /\ EditCount = 2
  /\ callLog = OrderedCalls \o <<ApplyCall>>
  /\ Len(execLog) = Len(callLog) + 1

\* C2: a boot-function call is issued, created as a thread or executed only when the
\* library base found by FindRemoteDLL is non-zero; when the direct path found
\* none it returns 0 having issued no call.
C2_NoCallWithoutLibrary ==
  /\ (callLog # <<>> \/ ExecutedCalls # <<>>) => loc # 0
  /\ pc \in {"F_alloc", "F_write", "F_thread", "F_wait", "F_read", "F_close", "F_free"} => loc # 0
  /\ \A t \in target.threads : t.funcName # "LoadLibraryW" => loc # 0
  /\ (path = "direct" /\ retInject # NULL /\ loc = 0) => (retInject = Ptr(0) /\ callLog = <<>>)

C2_Witness ==
  /\ pc = "done" /\ path = "direct" /\ "notfound" \in errors
  /\ loc = 0 /\ retInject = Ptr(0) /\ callLog = <<>> /\ Alive

Launching == params.op = "LaunchAndInjectIntoProcess"

\* C3: a launched child starts suspended, its primary thread is resumed only after
\* InjectIntoProcess has returned, with no remote call in progress and no remote
\* thread left, and the child runs none of its own code before the first resume.
C3_NoResumeBeforeInjectReturns ==
  Launching =>
    /\ (pi.hThread = "open" /\ pi.resumes = 0 /\ Alive) => target.suspendCount > 0
    /\ pi.resumes > 0 => (retInject # NULL /\ frame = NoFrame /\ target.threads = {})
    /\ target.ran => pi.resumes > 0

C3_Witness ==
  /\ Launching /\ pc = "L_resume2" /\ pi.resumes = 1 /\ Alive /\ ~target.ran
  /\ retInject # Ptr(0) /\ Len(callLog) > 1

InjectionFailed == Launching /\ retLaunch # NULL /\ retInject = Ptr(0)

\* C4 (as claimed): when the injection fails the child's primary thread is never
\* resumed, its thread handle is closed and the launch returns 0.
C4_FailedInjectLeavesChildSuspended ==
  InjectionFailed =>
    /\ pi.resumes = 0
    /\ Alive => target.suspendCount > 0
    /\ pi.hThread = "closed"
    /\ retLaunch = Ptr(0)

\* C4: when the injection fails ResumeThread is still issued twice on the child's
\* primary thread, after InjectIntoProcess returned, so the child is not left
\* suspended; its thread handle is then closed and the launch returns 0.
C4_FailedInjectResumesAndCloses ==
  InjectionFailed =>
    /\ pi.resumes = 2
    /\ Alive => target.suspendCount = 0
    /\ pi.hThread = "closed" /\ pi.hProcess = "closed"
    /\ retLaunch = Ptr(0)

C4_Witness ==
  /\ InjectionFailed /\ pc = "done" /\ Alive /\ target.suspendCount = 0
  /\ pi.resumes = 2 /\ pi.hThread = "closed"

WaitingInject == params.op = "InjectIntoProcess" /\ params.waitForExit /\ retInject # NULL

\* C5 (as claimed): whenever InjectIntoProcess with wait = true returns, the target
\* has exited and the value returned is the one held before the wait.
C5_ReturnsAfterExit ==
  WaitingInject => (target.state = "exited" /\ retInject = identAtWait)

\* the call went to the end of the direct path or of the delegated path
ReachedPathEnd == path = "direct" \/ (path = "delegate" /\ helper.state # "none")

\* C5: whenever InjectIntoProcess with wait = true returns from the end of the
\* direct path or of the delegated path (and not from an early error return), the
\* target has exited and the value returned is the one held before the wait.
C5_WaitedPathsReturnAfterExit ==
  (WaitingInject /\ ReachedPathEnd) =>
     (target.state = "exited" /\ identAtWait # NULL /\ retInject = identAtWait)

C5_Witness ==
  /\ WaitingInject /\ path = "direct" /\ pc = "done"
  /\ target.state = "exited" /\ retInject # Ptr(0) /\ retInject = identAtWait

\* C6: every remote operation comes after the WoW64 query chose the direct path;
\* a 32-bit controller with a 64-bit target aborts with 0 and no remote operation;
\* 32/32 and 64/64 inject directly; a 64-bit controller with a 32-bit target
\* delegates, and issues no InjectDLL and no InjectFunctionCall itself.
C6_BitnessTable ==
  /\ (remoteOp \/ callLog # <<>> \/ execLog # <<>> \/ target.threads # {} \/ frame # NoFrame)
        => path = "direct"
  /\ path = "direct" => sys.WIN64 = sys.target64
  /\ path = "delegate" => (sys.WIN64 /\ ~sys.target64)
  /\ (~sys.WIN64 /\ sys.target64) =>
        (path \in {"none", "abort"} /\ (retInject # NULL => retInject = Ptr(0)))
  /\ (retInject # NULL /\ errors \cap {"open", "wow64"} = {}) =>
        path = (IF sys.WIN64 = sys.target64 THEN "direct"
                ELSE IF sys.WIN64 THEN "delegate" ELSE "abort")

C6_Witness ==
  /\ ~sys.WIN64 /\ sys.target64 /\ errors = {"pair"}
  /\ path = "abort" /\ retInject = Ptr(0) /\ ~remoteOp /\ hProcess = "closed"

\* C7: on the delegated path with the helper spawned, the exit code is read only
\* after the wait on the helper's primary thread has seen the helper end, and the
\* value returned is the code the helper exited with.
C7_HelperExitCodeReturned ==
  /\ pc \in {"H_exitcode", "H_waitexit", "H_return"} => helper.state = "exited"
  /\ (path = "delegate" /\ helper.state # "none" /\ retInject # NULL) =>
        (helper.state = "exited" /\ retInject = Ptr(helper.exitCode))

C7_Witness ==
  /\ path = "delegate" /\ helper.state = "exited" /\ helper.exitCode = MaxIdent
  /\ retInject = Ptr(MaxIdent) /\ callLog = <<>>

\* C8 (as claimed): InjectIntoProcess returns 0 whenever an error of a listed kind
\* occurred during the call (open, WoW64 query, unsupported pair, helper spawn,
\* remote allocation, library not found).
C8_ErrorsReturnZero ==
  (retInject # NULL /\ errors # {}) => retInject = Ptr(0)

\* how often a remote call did e
Count(log, e) == Cardinality({i \in 1..Len(log) : log[i] = e})

\* no remote call is in progress
CallReturned == frame = NoFrame

\* C13 (as claimed): once a remote call has returned, every buffer it allocated
\* was freed exactly once and every thread handle it obtained was closed exactly
\* once, none of its buffers is still allocated, and it freed or closed nothing
\* that it had not obtained.
C13_ResourceDiscipline ==
  CallReturned =>
    /\ Count(resLog, "free") = Count(resLog, "alloc")
    /\ Count(resLog, "close") = Count(resLog, "thread")
    /\ target.mem = NULL
    /\ Count(resLog, "free_null") = 0
    /\ Count(resLog, "close_null") = 0

\* the positions of e in a remote call's record
At(log, e) == {i \in 1..Len(log) : log[i] = e}

\* C14 (as claimed): a remote thread exists only while its argument buffer is
\* allocated: its argument is the address of a buffer that is allocated in the
\* target, the buffer was allocated and written before the thread was created,
\* and the buffer is freed only after the wait on the thread has returned.
C14_BufferOutlivesThread ==
  /\ \A t \in target.threads : t.arg # NoHandle /\ target.mem # NULL
  /\ \A i \in At(resLog, "thread") :
       \E j \in At(resLog, "alloc"), k \in At(resLog, "write") : j < k /\ k < i
  /\ \A i \in At(resLog, "thread"), f \in At(resLog, "free") :
       \E w \in At(resLog, "wait") : i < w /\ w < f


\* the launch returned the result of a successful injection
LaunchSucceeded == Launching /\ retLaunch # NULL /\ retInject # Ptr(0)

\* C18 (as claimed): when the injection succeeds, exactly one resume operation is
\* issued on the child's primary thread, after InjectIntoProcess has returned.
C18_ResumedExactlyOnce ==
  /\ LaunchSucceeded => pi.resumes = 1
  /\ (Launching /\ pi.resumes > 0) => retInject # NULL

\* the closing calls in the log of issued calls
ApplyCalls == At(callLog, ApplyCall)

\* C20 (as claimed): a finished direct injection has issued RENDERDOC_ApplyEnvMods
\* exactly once, as its last call and right after the last RENDERDOC_EnvMod, if at
\* least one edit was sent, and has not issued it at all when there was no edit
\* (env null, or its first entry the empty-name terminator).
C20_ApplyOnlyAfterEdits ==
  CallsFinished =>
    IF EditCount > 0
    THEN /\ ApplyCalls = {Len(callLog)}
         /\ callLog[Len(callLog) - 1] = Call("RENDERDOC_EnvMod", EditCount)
    ELSE ApplyCalls = {}

\* C20: RENDERDOC_ApplyEnvMods is never issued more than once nor before the end
\* of the edits; a finished direct injection has issued it exactly once, as its
\* last call, whenever the env list is non-null (after the last RENDERDOC_EnvMod
\* if an edit was sent, and also when the first entry is the empty-name
\* terminator), and not at all when the env list is null.
C20_ApplyWheneverEnvGiven ==
  /\ ApplyCalls \subseteq {Len(callLog)}
  /\ ApplyCalls # {} => /\ params.env # NULL
                        /\ Len(callLog) = Len(OrderedCalls) + 1
  /\ CallsFinished =>
       /\ (params.env # NULL) = (ApplyCalls = {Len(callLog)})
       /\ EditCount > 0 => callLog[Len(callLog) - 1] = Call("RENDERDOC_EnvMod", EditCount)

\* a non-null env list holding only the terminator: the closing call is issued and run
C20_Witness ==
  /\ pc = "done" /\ path = "direct" /\ loc # 0 /\ Alive
  /\ params.env # NULL /\ EditCount = 0
  /\ ApplyCalls = {Len(callLog)}
  /\ execLog[Len(execLog)] = "RENDERDOC_ApplyEnvMods"

\* the remote buffer allocation of the current (or last) remote-call step failed
AllocFailed == resLog # <<>> /\ resLog[1] = "alloc_failed"

\* C22 (as claimed): when the remote buffer allocation of a remote-call step fails,
\* in InjectDLL or in InjectFunctionCall, the step attempts no write to target
\* memory and creates no remote thread.
C22_AllocFailureAborts ==
  AllocFailed =>
    /\ \A i \in 1..Len(resLog) :
         resLog[i] \notin {"write", "write_null", "thread", "thread_failed"}
    /\ \A t \in target.threads : t.arg # NoHandle

\* C23 (as claimed): whenever InjectIntoProcess has returned, on any path, the
\* target process handle it opened at entry has been closed, and so have the
\* helper's process and thread handles if it obtained them.
C23_HandlesClosedOnReturn ==
  retInject # NULL =>
    /\ hProcess # "open"
    /\ helper.hThread # "open"
    /\ helper.hProcess # "open"

(***************************************************************************)
(* Claims about FindRemoteDLL (checked under SpecFind and SpecFindFair).   *)
(***************************************************************************)
\* C15 (as claimed): when the target had exited before FindRemoteDLL began and no
\* module base is returned, the liveness probe has run and the failure logged is
\* "no longer available", whichever way the enumeration came out.
C15_DeadTargetClassified ==
  (pc = "done" /\ find.deadAtEntry /\ loc = 0) =>
     (find.probed /\ find.logged = "no longer available")

\* the modules of the snapshot that the query matches
Hits == {i \in 1..Len(target.modules) :
           IsSubstring(lowercase(params.libName), lowercase(target.modules[i].szModule))}

\* the snapshot was created and its modules could be read
SnapshotRead ==
  /\ find.attempts # <<>> /\ find.attempts[Len(find.attempts)] = "ok"
  /\ find.me32 > 0 \/ target.modules = <<>>

\* C16: with a snapshot created and readable, FindRemoteDLL returns the base of the
\* first module in snapshot order whose lowercased name contains the lowercased
\* query, having examined no module after it, and returns 0 when none matches.
C16_FirstMatchWins ==
  (pc = "done" /\ SnapshotRead) =>
     IF Hits = {} THEN loc = 0 /\ find.numModules = Len(target.modules)
     ELSE LET first == CHOOSE i \in Hits : \A j \in Hits : i <= j
          IN  loc = target.modules[first].modBaseAddr /\ find.numModules = first

\* the query R D (upper case) against RD at 2 followed by Xrd at 3 returns 2
C16_Witness ==
  /\ pc = "done" /\ params.libName = <<"R", "D">>
  /\ target.modules = <<LibModule, [szModule |-> <<"X", "r", "d">>, modBaseAddr |-> 3]>>
  /\ loc = 2 /\ find.numModules = 1

\* the retry loop is over
LoopLeft == pc \notin {"S_enter", "S_snapshot"}

RetryDiscipline ==
  LET a == find.attempts
  IN  /\ Len(a) <= 10
      /\ \A i \in 1..(Len(a) - 1) : a[i] = "ERROR_BAD_LENGTH"
      /\ LoopLeft => (a # <<>> /\ (a[Len(a)] \in {"ok", "other"} \/ Len(a) = 10))
      /\ (pc = "done" /\ a[Len(a)] # "ok") => (loc = 0 /\ ~find.probed)

\* C19: at most ten snapshot attempts are made; each attempt but the last failed
\* with ERROR_BAD_LENGTH, so the loop stops at the first success and at the first
\* other failure; 0 is returned when the last attempt gave no snapshot; and the
\* loop is always left.
C19_SnapshotRetries == [](RetryDiscipline) /\ <>LoopLeft

\* ten attempts, all failing with ERROR_BAD_LENGTH, and 0 returned
C19_Witness ==
  /\ pc = "done" /\ loc = 0 /\ Len(find.attempts) = 10
  /\ \A i \in 1..10 : find.attempts[i] = "ERROR_BAD_LENGTH"


(***************************************************************************)
(* Claims about the options encoding (checked under SpecEnc).              *)
(***************************************************************************)
\* C17: the encoded options hold, for each byte in order, the character 'a' + the
\* high nibble and then 'a' + the low nibble: all characters are within a..p, the
\* length is twice the blob's, and decoding gives the blob back; the bytes
\* 0x00 0xFF 0x10 encode to aappba.
C17_EncodingLossless ==
  LET B == Deref(params.opts)
  IN  /\ pc \in {"E_decode", "done"} =>
           /\ Len(helper.capopts) = 2 * Len(B)
           /\ \A j \in 1..Len(helper.capopts) : \E n \in 1..16 : helper.capopts[j] = HexChars[n]
           /\ \A i \in 1..Len(B) :
                /\ helper.capopts[(2 * i) - 1] = HexChars[(B[i] \div 16) + 1]
                /\ helper.capopts[2 * i] = HexChars[(B[i] % 16) + 1]
           /\ B = <<0, 255, 16>> => helper.capopts = <<"a", "a", "p", "p", "b", "a">>
      /\ pc = "done" => helper.options = Ptr(B)

C17_Witness ==
  /\ pc = "done" /\ params.opts = Ptr(<<0, 255, 16>>)
  /\ helper.capopts = <<"a", "a", "p", "p", "b", "a">>
  /\ helper.options = Ptr(<<0, 255, 16>>)


(***************************************************************************)
(* Claims about the env entry points (checked under SpecLib).              *)
(***************************************************************************)
Max(S) == CHOOSE x \in S : \A y \in S : y <= x

\* the calls since the last apply are those after position LastApply
LastApply ==
  LET S == {j \in 1..Len(execLog) : execLog[j].funcName = "RENDERDOC_ApplyEnvMods"}
  IN  IF S = {} THEN 0 ELSE Max(S)

\* what the last non-null call of funcName among the first i calls passed
LastArg(funcName, i, default) ==
  LET S == {j \in 1..i : execLog[j].funcName = funcName /\ execLog[j].arg # NULL}
  IN  IF S = {} THEN default ELSE Deref(execLog[Max(S)].arg)

\* the staging record the calls up to the i-th have left
StagedAfter(i) ==
  EnvironmentModification(LastArg("RENDERDOC_EnvModName", i, <<>>),
                          LastArg("RENDERDOC_EnvModValue", i, <<>>),
                          LastArg("RENDERDOC_EnvMod", i, "Replace"))

\* the EnvMod calls with a non-null argument since the last apply, in call order
Appending ==
  SelectSeq([i \in 1..(Len(execLog) - LastApply) |-> LastApply + i],
            LAMBDA i : execLog[i].funcName = "RENDERDOC_EnvMod" /\ execLog[i].arg # NULL)

\* the calls since the last apply are k triples Name, Value, EnvMod, none with a null
Compliant(k) ==
  /\ Len(execLog) - LastApply = 3 * k
  /\ \A j \in 1..(3 * k) :
       /\ execLog[LastApply + j].funcName = EnvCallNames[((j - 1) % 3) + 1]
       /\ execLog[LastApply + j].arg # NULL

\* C21: the pending list holds one record for each EnvMod call with a non-null
\* argument since the last apply, in call order, each equal to the staging record
\* as that call left it; EnvModName and EnvModValue and calls with a null argument
\* add nothing, and a null argument leaves the staging record as it was; so after
\* compliant triples EnvModName(n_i), EnvModValue(v_i), EnvMod(k_i) the pending
\* list is exactly the records (n_i, v_i, k_i) in call order.
C21_PendingIsCallOrder ==
  /\ modifications = [j \in 1..Len(Appending) |-> StagedAfter(Appending[j])]
  /\ tempEnvMod = StagedAfter(Len(execLog))
  /\ \A k \in 0..MaxPending :
       Compliant(k) =>
         modifications =
           [i \in 1..k |->
              EnvironmentModification(Deref(execLog[LastApply + (3 * i) - 2].arg),
                                      Deref(execLog[LastApply + (3 * i) - 1].arg),
                                      Deref(execLog[LastApply + (3 * i)].arg))]

\* two compliant triples that differ in their value
C21_Witness ==
  /\ Compliant(2) /\ LastApply = 0
  /\ modifications = <<EnvironmentModification(<<"X">>, <<"a">>, "Append"),
                       EnvironmentModification(<<"X">>, <<"b">>, "Append")>>

====
